---- MODULE Spec2Model ----
(***************************************************************************)
(* Model of the Stoplight class (src/entities/stoplight.py): the two       *)
(* colour fields, the two tick counters, and its two mutating methods      *)
(* switch_yellow() (the spec's request_transition) and update_stoplight()  *)
(* (the spec's tick).  Each method is an operator from the object's        *)
(* fields to the object's fields, translated statement by statement, and   *)
(* one action applies it.  The remaining variables are observers: they     *)
(* record which method ran last, the fields before it ran, and counts of   *)
(* update_stoplight() calls, and never influence the fields.  ctl is the    *)
(* specification's PhaseController, given the same calls side by side.     *)
(***************************************************************************)
EXTENDS Integers, Naturals, Sequences, FiniteSets, TLC

\* TrafficLightColor.GREEN.value / YELLOW.value / RED.value
GREEN == "green"
YELLOW == "yellow"
RED == "red"

\* Stoplight.YELLOW_DURATION
YELLOW_DURATION == 90

\* Largest number of switch_yellow() calls made during one yellow that the
\* model tells apart (further calls are made, and counted as this many).
MaxRedundant == 2

\* Largest value of time_green the model explores (time_green is unbounded
\* in the program: it grows for as long as nobody calls switch_yellow).
MaxGreen == 12

VARIABLES color_NS, color_EW, time_yellow, time_green,
          op, pre, requested, reqTicks, swapTick, goTicks, redundant,
          ctl

fields == <<color_NS, color_EW, time_yellow, time_green>>
vars == <<color_NS, color_EW, time_yellow, time_green,
          op, pre, requested, reqTicks, swapTick, goTicks, redundant,
          ctl>>

\* The object as a record of its four attributes.
Self ==
  [color_NS |-> color_NS, color_EW |-> color_EW,
   time_yellow |-> time_yellow, time_green |-> time_green]

AnyGreen(self) == self.color_NS = GREEN \/ self.color_EW = GREEN
AnyYellow(self) == self.color_NS = YELLOW \/ self.color_EW = YELLOW

\* ---- mutant of new_stoplight ----
\* the east-west colour is a copy of the north-south colour
new_stoplight_same(ns_green) ==
  LET ns == IF ns_green THEN GREEN ELSE RED
  IN [color_NS |-> ns, color_EW |-> ns,
      time_yellow |-> 0, time_green |-> 0]

\* Stoplight.__init__ with random.choice([True, False]) = ns_green
new_stoplight(ns_green) ==
  LET ns == IF ns_green THEN GREEN ELSE RED
  IN [color_NS |-> ns,
      color_EW |-> IF ns = GREEN THEN RED ELSE GREEN,
      time_yellow |-> 0, time_green |-> 0]

\* ---- mutants of switch_yellow ----
\* resets the yellow timer on every call, also when nothing is green
switch_yellow_restart(self) ==
  IF self.color_NS = GREEN
    THEN [self EXCEPT !.color_NS = YELLOW, !.time_green = 0, !.time_yellow = 0]
    ELSE IF self.color_EW = GREEN
      THEN [self EXCEPT !.color_EW = YELLOW, !.time_green = 0, !.time_yellow = 0]
      ELSE [self EXCEPT !.time_yellow = 0]

\* always acts on the north-south field, whichever axis is green
switch_yellow_ns_only(self) ==
  IF AnyGreen(self)
    THEN [self EXCEPT !.color_NS = YELLOW, !.time_green = 0]
    ELSE self

\* a second request turns the yellow axis back to green (a toggle)
switch_yellow_toggle(self) ==
  IF self.color_NS = GREEN
    THEN [self EXCEPT !.color_NS = YELLOW, !.time_green = 0]
    ELSE IF self.color_EW = GREEN
      THEN [self EXCEPT !.color_EW = YELLOW, !.time_green = 0]
      ELSE IF self.color_NS = YELLOW
        THEN [self EXCEPT !.color_NS = GREEN]
        ELSE IF self.color_EW = YELLOW
          THEN [self EXCEPT !.color_EW = GREEN]
          ELSE self

\* the green axis goes straight to red and the other axis to green
switch_yellow_skip(self) ==
  IF self.color_NS = GREEN
    THEN [self EXCEPT !.color_NS = RED, !.color_EW = GREEN, !.time_green = 0]
    ELSE IF self.color_EW = GREEN
      THEN [self EXCEPT !.color_EW = RED, !.color_NS = GREEN, !.time_green = 0]
      ELSE self

\* the green counter is not reset when the green axis turns yellow
switch_yellow_keep_count(self) ==
  IF self.color_NS = GREEN
    THEN [self EXCEPT !.color_NS = YELLOW]
    ELSE IF self.color_EW = GREEN
      THEN [self EXCEPT !.color_EW = YELLOW]
      ELSE self

\* Stoplight.switch_yellow
switch_yellow(self) ==
  IF self.color_NS = GREEN
    THEN [self EXCEPT !.color_NS = YELLOW, !.time_green = 0]
    ELSE IF self.color_EW = GREEN
      THEN [self EXCEPT !.color_EW = YELLOW, !.time_green = 0]
      ELSE self

\* ---- mutant of count_green ----
\* counts the green timer whenever some axis is not red
count_green_any_active(self) ==
  IF self.color_NS # RED \/ self.color_EW # RED
    THEN [self EXCEPT !.time_green = self.time_green + 1]
    ELSE self

\* update_stoplight, first statement: count a tick of green
count_green(self) ==
  IF self.color_NS = GREEN \/ self.color_EW = GREEN
    THEN [self EXCEPT !.time_green = self.time_green + 1]
    ELSE self

\* ---- mutant of count_yellow ----
\* counts the yellow timer whenever some axis is not red
count_yellow_any_active(self) ==
  IF self.color_NS # RED \/ self.color_EW # RED
    THEN [self EXCEPT !.time_yellow = self.time_yellow + 1]
    ELSE self

\* `and` in place of `or`: the yellow timer advances only when both axes
\* are yellow
count_yellow_both(self) ==
  IF self.color_NS = YELLOW /\ self.color_EW = YELLOW
    THEN [self EXCEPT !.time_yellow = self.time_yellow + 1]
    ELSE self

\* update_stoplight, second statement: count a tick of yellow
count_yellow(self) ==
  IF self.color_NS = YELLOW \/ self.color_EW = YELLOW
    THEN [self EXCEPT !.time_yellow = self.time_yellow + 1]
    ELSE self

\* ---- mutants of end_yellow ----
\* strict comparison: the swap comes one tick later
end_yellow_strict(self) ==
  IF self.time_yellow > YELLOW_DURATION
    THEN LET s == IF self.color_NS = YELLOW
                    THEN [self EXCEPT !.color_NS = RED, !.color_EW = GREEN]
                    ELSE IF self.color_EW = YELLOW
                      THEN [self EXCEPT !.color_EW = RED, !.color_NS = GREEN]
                      ELSE self
         IN [s EXCEPT !.time_yellow = 0]
    ELSE self

\* the yellow axis turns red but the other axis is not turned green
end_yellow_no_green(self) ==
  IF self.time_yellow >= YELLOW_DURATION
    THEN LET s == IF self.color_NS = YELLOW
                    THEN [self EXCEPT !.color_NS = RED]
                    ELSE IF self.color_EW = YELLOW
                      THEN [self EXCEPT !.color_EW = RED]
                      ELSE self
         IN [s EXCEPT !.time_yellow = 0]
    ELSE self

\* the yellow timer is not reset after the swap
end_yellow_no_reset(self) ==
  IF self.time_yellow >= YELLOW_DURATION
    THEN IF self.color_NS = YELLOW
           THEN [self EXCEPT !.color_NS = RED, !.color_EW = GREEN]
           ELSE IF self.color_EW = YELLOW
             THEN [self EXCEPT !.color_EW = RED, !.color_NS = GREEN]
             ELSE self
    ELSE self

\* the second assignment of each branch names the wrong field: the yellow
\* axis itself is turned green
end_yellow_wrong_field(self) ==
  IF self.time_yellow >= YELLOW_DURATION
    THEN LET s == IF self.color_NS = YELLOW
                    THEN [self EXCEPT !.color_NS = GREEN]
                    ELSE IF self.color_EW = YELLOW
                      THEN [self EXCEPT !.color_EW = GREEN]
                      ELSE self
         IN [s EXCEPT !.time_yellow = 0]
    ELSE self

\* the threshold test is missing: the yellow never ends
end_yellow_never(self) == self

\* update_stoplight, third statement: when the yellow timer has reached
\* YELLOW_DURATION the yellow axis turns red and the other green; the timer
\* is reset whether or not an axis was yellow.
end_yellow(self) ==
  IF self.time_yellow >= YELLOW_DURATION
    THEN LET s == IF self.color_NS = YELLOW
                    THEN [self EXCEPT !.color_NS = RED, !.color_EW = GREEN]
                    ELSE IF self.color_EW = YELLOW
                      THEN [self EXCEPT !.color_EW = RED, !.color_NS = GREEN]
                      ELSE self
         IN [s EXCEPT !.time_yellow = 0]
    ELSE self

\* ---- mutants of update_stoplight ----
\* the swap is done before the green counter is updated, so the tick that
\* performs the swap is counted as a tick of green
update_stoplight_swap_first(self) ==
  count_green(end_yellow(count_yellow(self)))

\* the green counter advances by two
update_stoplight_double_green(self) ==
  end_yellow(count_yellow(count_green(count_green(self))))

\* the threshold is tested before the yellow counter is advanced
update_stoplight_test_first(self) ==
  count_yellow(end_yellow(count_green(self)))

\* Stoplight.update_stoplight
update_stoplight(self) ==
  end_yellow(count_yellow(count_green(self)))

\* ------------------------------------------------------------------------
\* The specification's PhaseController, kept as one active axis and its
\* sub-state; the indication of the other axis is derived, never stored.
\* ------------------------------------------------------------------------
caution_duration == YELLOW_DURATION

other_axis(axis) == IF axis = "NS" THEN "EW" ELSE "NS"

\* construction with the given axis Go, both counters 0
new_controller(axis) ==
  [active |-> axis, phase |-> "Go", elapsed_go |-> 0, elapsed_caution |-> 0]

indication_of(c, axis) == IF c.active = axis THEN c.phase ELSE "Stop"

\* request_transition(): a Go axis turns Caution and elapsed_go resets;
\* otherwise nothing happens
request_transition(c) ==
  IF c.phase = "Go"
    THEN [c EXCEPT !.phase = "Caution", !.elapsed_go = 0]
    ELSE c

\* tick(): steps 1, 2 and 3 of the specification, in that order
tick(c) ==
  LET c1 == IF c.phase = "Go"
              THEN [c EXCEPT !.elapsed_go = c.elapsed_go + 1] ELSE c
      c2 == IF c1.phase = "Caution"
              THEN [c1 EXCEPT !.elapsed_caution = c1.elapsed_caution + 1]
              ELSE c1
  IN IF c2.elapsed_caution >= caution_duration /\ c2.phase = "Caution"
       THEN [c2 EXCEPT !.active = other_axis(c2.active), !.phase = "Go",
                       !.elapsed_caution = 0]
       ELSE c2

\* The indication a colour stands for.
Indication(color) ==
  IF color = GREEN THEN "Go" ELSE IF color = YELLOW THEN "Caution" ELSE "Stop"

\* The fields after a call are those of the record the method returns.
Becomes(self) ==
  /\ color_NS' = self.color_NS
  /\ color_EW' = self.color_EW
  /\ time_yellow' = self.time_yellow
  /\ time_green' = self.time_green

\* Construction: either axis may be the green one; both counters are 0.
Init ==
  /\ \E ns_green \in BOOLEAN :
       LET self == new_stoplight(ns_green)
       IN /\ color_NS = self.color_NS
          /\ color_EW = self.color_EW
          /\ time_yellow = self.time_yellow
          /\ time_green = self.time_green
          /\ pre = self
          /\ ctl = new_controller(IF ns_green THEN "NS" ELSE "EW")
  /\ op = "init"
  /\ requested = FALSE
  /\ reqTicks = 0
  /\ swapTick = 0
  /\ goTicks = 0
  /\ redundant = 0

\* A call of switch_yellow().  A call that turns a green axis yellow starts
\* a new count of ticks (reqTicks) and clears the record of the last swap;
\* any other call is counted in redundant.
SwitchYellow ==
  LET effective == AnyGreen(Self)
  IN /\ Becomes(switch_yellow(Self))
     /\ op' = "switch_yellow"
     /\ pre' = Self
     /\ requested' = (requested \/ effective)
     /\ reqTicks' = IF effective THEN 0 ELSE reqTicks
     /\ swapTick' = IF effective THEN 0 ELSE swapTick
     /\ redundant' = IF effective THEN 0
                      ELSE IF redundant < MaxRedundant THEN redundant + 1
                      ELSE redundant
     /\ ctl' = request_transition(ctl)
     /\ UNCHANGED goTicks

\* A call of update_stoplight().  goTicks counts the calls since an axis
\* last turned green, reqTicks the calls since the last effective
\* switch_yellow(), and swapTick keeps the value of reqTicks at the call in
\* which an axis turned green.
UpdateStoplight ==
  LET post == update_stoplight(Self)
      turnedGreen == \/ (color_NS # GREEN /\ post.color_NS = GREEN)
                     \/ (color_EW # GREEN /\ post.color_EW = GREEN)
  IN /\ time_green < MaxGreen
     /\ reqTicks < YELLOW_DURATION + MaxGreen + 2
     /\ Becomes(post)
     /\ op' = "update_stoplight"
     /\ pre' = Self
     /\ reqTicks' = reqTicks + 1
     /\ swapTick' = IF turnedGreen /\ swapTick = 0 THEN reqTicks + 1 ELSE swapTick
     /\ goTicks' = IF turnedGreen THEN 0 ELSE goTicks + 1
     /\ ctl' = tick(ctl)
     /\ UNCHANGED <<requested, redundant>>

Next == SwitchYellow \/ UpdateStoplight

Spec == Init /\ [][Next]_vars

\* The caller keeps calling update_stoplight() (once per simulation step):
\* weak fairness on the call.  Nothing is assumed about switch_yellow().
LiveSpec == Init /\ [][Next]_vars /\ WF_vars(UpdateStoplight)

\* ------------------------------------------------------------------------
\* Properties
\* ------------------------------------------------------------------------

NSActive == color_NS \in {GREEN, YELLOW} /\ color_EW = RED
EWActive == color_EW \in {GREEN, YELLOW} /\ color_NS = RED

\* The last call was an update_stoplight() that ended a yellow: the axis
\* that was yellow before the call is red and the other one is green.
JustSwapped ==
  /\ op = "update_stoplight"
  /\ AnyYellow(pre)
  /\ \/ (pre.color_NS = YELLOW /\ color_NS = RED /\ color_EW = GREEN)
     \/ (pre.color_EW = YELLOW /\ color_EW = RED /\ color_NS = GREEN)

\* C1: in every reachable state exactly one axis is green or yellow and the
\* other is red: never both red, never both non-red, never both yellow.
C1_MutualExclusion ==
  /\ (NSActive /\ ~EWActive) \/ (EWActive /\ ~NSActive)
  /\ ~(color_NS = RED /\ color_EW = RED)
  /\ ~(color_NS # RED /\ color_EW # RED)
  /\ ~(color_NS = YELLOW /\ color_EW = YELLOW)

C1_Witness == JustSwapped /\ pre.color_NS = YELLOW /\ swapTick # 0

\* C2 as stated: after the switch_yellow() that turns the green axis
\* yellow, the axis is still yellow after each of the first YELLOW_DURATION
\* calls of update_stoplight(), and the swap is made by call number
\* YELLOW_DURATION + 1.
C2_Original ==
  requested =>
    /\ reqTicks <= YELLOW_DURATION => (AnyYellow(Self) /\ swapTick = 0)
    /\ reqTicks >= YELLOW_DURATION + 1 => swapTick = YELLOW_DURATION + 1

\* C2 (amended): after the switch_yellow() that turns the green axis
\* yellow, the axis is still yellow after each of the first
\* YELLOW_DURATION - 1 calls of update_stoplight(), and the swap (yellow
\* axis to red, other axis to green) is made by call number
\* YELLOW_DURATION, not before and not later.
C2_BoundedCaution ==
  requested =>
    /\ reqTicks <= YELLOW_DURATION - 1 => (AnyYellow(Self) /\ swapTick = 0)
    /\ reqTicks >= YELLOW_DURATION => swapTick = YELLOW_DURATION
    /\ (reqTicks = YELLOW_DURATION /\ op = "update_stoplight") => JustSwapped

C2_Witness ==
  requested /\ reqTicks = YELLOW_DURATION /\ swapTick = YELLOW_DURATION
    /\ JustSwapped

\* C3: while an axis is yellow, time_yellow is the number of
\* update_stoplight() calls made since it was yellow with time_yellow = 0; a
\* call made with time_yellow < YELLOW_DURATION - 1 leaves both colours as
\* they are and adds one to time_yellow (so after YELLOW_DURATION - 1 calls
\* the axis is yellow, the other red, time_yellow = YELLOW_DURATION - 1);
\* the call made with time_yellow = YELLOW_DURATION - 1 turns the yellow
\* axis red, the other green, and time_yellow to 0.
C3_CautionCountdown ==
  /\ AnyYellow(Self) =>
       /\ time_yellow = reqTicks
       /\ time_yellow <= YELLOW_DURATION - 1
       /\ (color_NS = RED \/ color_EW = RED)
  /\ (op = "update_stoplight" /\ AnyYellow(pre)) =>
       IF pre.time_yellow < YELLOW_DURATION - 1
         THEN /\ color_NS = pre.color_NS
              /\ color_EW = pre.color_EW
              /\ time_yellow = pre.time_yellow + 1
         ELSE /\ pre.time_yellow = YELLOW_DURATION - 1
              /\ JustSwapped
              /\ time_yellow = 0

C3_Witness ==
  JustSwapped /\ pre.time_yellow = YELLOW_DURATION - 1 /\ time_yellow = 0
    /\ pre.color_EW = YELLOW

\* C4: a switch_yellow() made while an axis is green turns that axis (and
\* not the red one) yellow, sets time_green to 0, leaves the other axis red
\* and leaves time_yellow as it was.
C4_RequestEffect ==
  (op = "switch_yellow" /\ AnyGreen(pre)) =>
    /\ pre.color_NS = GREEN =>
         (color_NS = YELLOW /\ color_EW = pre.color_EW /\ color_EW = RED)
    /\ pre.color_EW = GREEN =>
         (color_EW = YELLOW /\ color_NS = pre.color_NS /\ color_NS = RED)
    /\ time_green = 0
    /\ time_yellow = pre.time_yellow

C4_Witness ==
  /\ op = "switch_yellow"
  /\ pre.color_EW = GREEN /\ pre.color_NS = RED /\ pre.time_green > 0
  /\ color_EW = YELLOW /\ color_NS = RED /\ time_green = 0

\* C5: a switch_yellow() made while no axis is green (a yellow is in
\* progress, whatever time_yellow is) changes none of the four fields.
C5_RequestNoOp ==
  (op = "switch_yellow" /\ ~AnyGreen(pre)) => Self = pre

C5_Witness ==
  /\ op = "switch_yellow"
  /\ AnyYellow(pre) /\ pre.time_yellow > 1
  /\ Self = pre

\* C6: a switch_yellow() that directly follows a switch_yellow() changes
\* none of the four fields: two calls in a row give the state one call gives.
C6_IdempotentRequest ==
  [][(op = "switch_yellow" /\ op' = "switch_yellow") => fields' = fields]_vars

C6_Witness ==
  /\ op = "switch_yellow"
  /\ AnyYellow(pre) /\ pre.time_yellow = 0 /\ reqTicks = 0
  /\ Self = pre

\* C7: time_yellow is non-zero only while some axis is yellow; whenever an
\* axis is green, time_yellow is 0.
C7_CautionCounterOnlyInCaution ==
  /\ time_yellow # 0 => AnyYellow(Self)
  /\ AnyGreen(Self) => time_yellow = 0

C7_Witness ==
  JustSwapped /\ pre.time_yellow # 0 /\ time_yellow = 0 /\ AnyGreen(Self)

\* C8: no update_stoplight() made with a yellow axis and time_yellow above
\* YELLOW_DURATION leaves that axis yellow; in fact the call in which the
\* incremented time_yellow reaches YELLOW_DURATION already ends the yellow
\* and resets the counter, so the counter is never seen above the duration.
C8_NoOverrun ==
  /\ ~ /\ op = "update_stoplight"
       /\ pre.time_yellow > YELLOW_DURATION
       /\ \/ (pre.color_NS = YELLOW /\ color_NS = YELLOW)
          \/ (pre.color_EW = YELLOW /\ color_EW = YELLOW)
  /\ (op = "update_stoplight" /\ AnyYellow(pre)
        /\ pre.time_yellow + 1 >= YELLOW_DURATION) =>
       (~AnyYellow(Self) /\ time_yellow = 0)
  /\ time_yellow <= YELLOW_DURATION

C8_Witness ==
  /\ op = "update_stoplight"
  /\ pre.color_NS = YELLOW /\ pre.time_yellow + 1 >= YELLOW_DURATION
  /\ color_NS = RED /\ time_yellow = 0

\* C9: whenever an axis is green, time_green is the number of
\* update_stoplight() calls made since that axis turned green (since
\* construction for the axis that starts green); the call that turns it
\* green is not counted.
C9_ElapsedGoCountsTicks ==
  AnyGreen(Self) => time_green = goTicks

C9_Witness ==
  AnyGreen(Self) /\ swapTick # 0 /\ goTicks = 3 /\ time_green = 3

\* C10: an update_stoplight() made while an axis is green adds exactly one
\* to time_green, leaves both colours as they are and time_yellow at 0; so
\* n calls from construction, with no switch_yellow(), give time_green = n.
C10_TickWhileGo ==
  /\ (op = "update_stoplight" /\ AnyGreen(pre)) =>
       /\ time_green = pre.time_green + 1
       /\ color_NS = pre.color_NS
       /\ color_EW = pre.color_EW
       /\ pre.time_yellow = 0
       /\ time_yellow = 0
  /\ ~requested => (time_green = reqTicks /\ AnyGreen(Self))

C10_Witness ==
  /\ op = "update_stoplight"
  /\ ~requested /\ reqTicks = 10 /\ time_green = 10
  /\ color_NS = GREEN /\ color_EW = RED

\* C11: an axis goes from red to green only in an update_stoplight() call
\* in which the other axis goes from yellow to red and the incremented
\* time_yellow has reached YELLOW_DURATION; switch_yellow() never sets an
\* axis to red or green; one update_stoplight() makes at most one swap (its
\* result has the colours it started with, or those of a single swap).
C11_SwapOnlyByTick ==
  /\ (pre.color_NS = RED /\ color_NS = GREEN) =>
       /\ op = "update_stoplight"
       /\ pre.color_EW = YELLOW /\ color_EW = RED
       /\ pre.time_yellow + 1 >= YELLOW_DURATION
  /\ (pre.color_EW = RED /\ color_EW = GREEN) =>
       /\ op = "update_stoplight"
       /\ pre.color_NS = YELLOW /\ color_NS = RED
       /\ pre.time_yellow + 1 >= YELLOW_DURATION
  /\ op = "switch_yellow" =>
       /\ color_NS # pre.color_NS => color_NS = YELLOW
       /\ color_EW # pre.color_EW => color_EW = YELLOW
  /\ op = "update_stoplight" =>
       \/ (color_NS = pre.color_NS /\ color_EW = pre.color_EW)
       \/ JustSwapped

C11_Witness ==
  /\ op = "update_stoplight"
  /\ pre.color_EW = RED /\ color_EW = GREEN
  /\ pre.color_NS = YELLOW /\ color_NS = RED
  /\ pre.time_yellow + 1 = YELLOW_DURATION

\* C13: every state produced by construction has exactly one axis green
\* and the other red (none yellow), with time_green = 0 and time_yellow = 0.
\* (That either axis can be the green one is shown by C13_Witness for
\* east-west and by C10_Witness for north-south.)
C13_InitialState ==
  op = "init" =>
    /\ \/ (color_NS = GREEN /\ color_EW = RED)
       \/ (color_NS = RED /\ color_EW = GREEN)
    /\ ~AnyYellow(Self)
    /\ time_green = 0
    /\ time_yellow = 0

C13_Witness ==
  op = "init" /\ color_EW = GREEN /\ color_NS = RED /\ time_green = 0

\* C15: between the state before a call and the state after it each axis
\* either keeps its colour or goes green -> yellow (in switch_yellow),
\* yellow -> red (in update_stoplight) or red -> green (in
\* update_stoplight); never green -> red, yellow -> green or red -> yellow.
C15_PerAxisOrdering ==
  /\ color_NS # pre.color_NS =>
       \/ (pre.color_NS = GREEN /\ color_NS = YELLOW /\ op = "switch_yellow")
       \/ (pre.color_NS = YELLOW /\ color_NS = RED /\ op = "update_stoplight")
       \/ (pre.color_NS = RED /\ color_NS = GREEN /\ op = "update_stoplight")
  /\ color_EW # pre.color_EW =>
       \/ (pre.color_EW = GREEN /\ color_EW = YELLOW /\ op = "switch_yellow")
       \/ (pre.color_EW = YELLOW /\ color_EW = RED /\ op = "update_stoplight")
       \/ (pre.color_EW = RED /\ color_EW = GREEN /\ op = "update_stoplight")

C15_Witness ==
  /\ op = "update_stoplight"
  /\ pre.color_EW = YELLOW /\ color_EW = RED
  /\ pre.color_NS = RED /\ color_NS = GREEN
  /\ requested

\* C16: after every completed call 0 <= time_yellow <= YELLOW_DURATION - 1:
\* the value YELLOW_DURATION is reached only inside update_stoplight() and
\* is reset to 0 in the same call.
C16_CautionCounterRange ==
  /\ time_yellow \in 0..(YELLOW_DURATION - 1)
  /\ pre.time_yellow \in 0..(YELLOW_DURATION - 1)
  /\ (op = "update_stoplight" /\ pre.time_yellow = YELLOW_DURATION - 1)
       => time_yellow = 0

C16_Witness ==
  AnyYellow(Self) /\ time_yellow = YELLOW_DURATION - 1
    /\ op = "update_stoplight"

\* C17: whenever no axis is green (a yellow is in progress) time_green is
\* 0, and in the state right after a swap the newly green axis has
\* time_green = 0.
C17_ElapsedGoZeroOutsideGo ==
  /\ ~AnyGreen(Self) => time_green = 0
  /\ JustSwapped => (AnyGreen(Self) /\ time_green = 0)

C17_Witness ==
  /\ op = "switch_yellow"
  /\ pre.color_NS = GREEN /\ pre.time_green = 5
  /\ color_NS = YELLOW /\ time_green = 0

\* C12: no reachable state is terminal (a call of update_stoplight() always
\* changes the state, and so does a call of switch_yellow() while an axis is
\* green); if update_stoplight() keeps being called then whenever an axis is
\* yellow the other axis eventually becomes green; and if moreover
\* switch_yellow() keeps being called, each axis is green infinitely often.
C12_Liveness ==
  /\ [](/\ update_stoplight(Self) # Self
        /\ AnyGreen(Self) => switch_yellow(Self) # Self)
  /\ (color_NS = YELLOW) ~> (color_EW = GREEN)
  /\ (color_EW = YELLOW) ~> (color_NS = GREEN)
  /\ ([]<>(op = "switch_yellow"))
       => ([]<>(color_NS = GREEN) /\ []<>(color_EW = GREEN))

C12_Witness ==
  /\ JustSwapped
  /\ pre.color_NS = YELLOW /\ color_EW = GREEN
  /\ reqTicks = YELLOW_DURATION /\ time_green = 0

\* C18: switch_yellow() calls made during a yellow neither stretch nor
\* shorten it: such a call leaves time_yellow and the colours as they are,
\* and however many of them were made since the call that turned the green
\* axis yellow, the swap is made by update_stoplight() call number
\* YELLOW_DURATION after that call.
C18_RedundantRequestsHarmless ==
  \A n \in 0..MaxRedundant :
    redundant = n =>
      /\ (op = "switch_yellow" /\ AnyYellow(pre)) =>
           /\ time_yellow = pre.time_yellow
           /\ color_NS = pre.color_NS /\ color_EW = pre.color_EW
      /\ (requested /\ swapTick # 0) => swapTick = YELLOW_DURATION
      /\ (requested /\ swapTick = 0) =>
           (AnyYellow(Self) /\ reqTicks < YELLOW_DURATION)

C18_Witness ==
  /\ JustSwapped
  /\ redundant >= 2
  /\ swapTick = YELLOW_DURATION /\ reqTicks = YELLOW_DURATION

\* C19: the Stoplight and the specification's PhaseController, started with
\* the same green axis and given the same calls, agree after every call on
\* the indication of each axis, on elapsed_go and on elapsed_caution.
C19_Refinement ==
  /\ indication_of(ctl, "NS") = Indication(color_NS)
  /\ indication_of(ctl, "EW") = Indication(color_EW)
  /\ ctl.elapsed_go = time_green
  /\ ctl.elapsed_caution = time_yellow

C19_Witness ==
  /\ JustSwapped
  /\ ctl.active = "EW" /\ ctl.phase = "Go"
  /\ color_EW = GREEN /\ color_NS = RED
  /\ redundant = 1

====
